---- MODULE Spec2Model ----
(***************************************************************************)
(* Model of flappybird.py: the main loop of main(), the Bird and PipePair  *)
(* sprites and the ai move-sequence optimiser.                             *)
(*                                                                         *)
(* Conventions.                                                            *)
(*  - Python lists are 0-indexed, TLA+ sequences 1-indexed: the Python     *)
(*    element curr[k] is curr[k+1] here.  Cursors (count, compframe,       *)
(*    curr[2], best[2]) keep their Python values.                          *)
(*  - Floats are fixed point: positions of birds in micro-pixels (U per    *)
(*    pixel), msec_to_climb in microseconds.  frames_to_msec(1) is the     *)
(*    double 16.666666666666668; twelve subtractions from 200.0 leave      *)
(*    7.1e-15 > 0, so a full climb lasts thirteen updates.  DT is rounded  *)
(*    down so that the fixed-point residue is positive as well.            *)
(*  - random.randint is a deterministic generator: its stream is one of    *)
(*    Streams, picked at start-up (the seed); rng is its position.         *)
(*  - pygame masks are taken fully opaque: collide_mask is rectangle       *)
(*    overlap of the bird's rect with the two pipe segments.               *)
(***************************************************************************)
EXTENDS Integers, Sequences, FiniteSets, TLC

\* ------------------------------------------------------------------ bounds
MaxRuns == 3        \* reset blocks executed before the model stops
MaxEvents == 1      \* events returned by one pygame.event.get()
MaxClicks == 1      \* ascend events delivered to the human bird per run
MaxScoreArg == 3    \* score arguments tried on resetvar as a pure function

\* ------------------------------------------------------- program constants
FPS == 60
WIN_WIDTH == 568
WIN_HEIGHT == 512
BIRD_X == 50
BIRD_WIDTH == 32
BIRD_HEIGHT == 32
CLIMB_DURATION == 200000
PIPE_WIDTH == 80
PIECE_HEIGHT == 32
ADD_INTERVAL == 3000
PS == <<5, 4, 8, 3, 8, 7, 3, 2, 6, 5>>

U == 1000000
DT == 16666
SINK_STEP == 3333333
PIPE_STEP == 3
INIT_CLIMB == 2000
INIT_Y == 240
DEAD_X == 0 - 100

\* ------------------------------------------------------------ environment
\* n copies of v.
Rep(v, n) == [k \in 1..n |-> v]

\* A stream that steers one bird through nine obstacles, past the spawn of
\* the eleventh: runs of 1 hold the height, a run of 12 + z other values is
\* one full climb followed by z sinking updates.
LongStream ==
  Rep(1, 400) \o Rep(0, 12) \o Rep(1, 158) \o Rep(0, 62) \o Rep(1, 118)
    \o Rep(0, 12) \o Rep(1, 18) \o Rep(0, 12) \o Rep(1, 318) \o Rep(0, 71)
    \o Rep(1, 109) \o Rep(0, 40) \o Rep(1, 140) \o Rep(0, 12) \o Rep(1, 323)
    \o Rep(0, 100)

\* A stream under which a single bird passes the first obstacle and then
\* sinks out of the vertical bounds (27 reduces to 1 in 0..25 and to 27 in
\* 0..30; 30 reduces to 4 and to 30).
OffScreenStream == Rep(27, 205) \o Rep(30, 120)

\* Streams of raw random values; randint(lo, hi) reduces one into lo..hi.
Streams == << <<1>>,
              <<1, 1, 1, 0>>,
              <<1, 0>>,
              <<1, 0, 0, 0, 0, 0, 0, 0, 0, 0, 0, 0>>,
              <<27, 30, 0>>,
              <<0>>,
              LongStream,
              OffScreenStream >>

\* (birdnum, player, seed): sys.argv[1], sys.argv[2] and the generator seed.
Configs == { <<0, 0, 6>>, <<1, 0, 1>>, <<2, 0, 2>>, <<2, 0, 3>>,
             <<1, 0, 4>>, <<1, 0, 5>>, <<1, 1, 6>>, <<1, 0, 7>>, <<1, 0, 8>> }

Events == {"QUIT", "ESCAPE", "PAUSE", "CLICK"}

RECURSIVE SeqsUpTo(_)
SeqsUpTo(n) ==
  IF n = 0 THEN { <<>> }
  ELSE LET S == SeqsUpTo(n - 1)
       IN S \cup { Append(s, e) : s \in {t \in S : Len(t) = n - 1}, e \in Events }

Randint(lo, hi, seed, n) ==
  LET pat == Streams[seed]
  IN lo + (pat[(n % Len(pat)) + 1] % (hi - lo + 1))

NextRng(seed, n) == (n + 1) % Len(Streams[seed])

\* ------------------------------------------------------------------- Bird
frames_to_msec == DT

msec_to_frames(ms) == (FPS * ms) \div 1000

\* 0.3 * frames_to_msec(1) * (1 - cos(pi * (1 - m/200))) in micro-pixels,
\* tabulated at the values msec_to_climb takes (200 - k*dt, and the 2 given
\* to a new Bird).
ClimbTable == <<0, 170371, 669873, 1464466, 2500000, 3705905, 5000000,
                6294095, 7500000, 8535534, 9330127, 9829629, 10000000>>

ClimbStepFromEnd(m) ==
  IF m = INIT_CLIMB THEN 9997533
  ELSE ClimbTable[13 - ((CLIMB_DURATION - m + (DT \div 2)) \div DT)]

ClimbStep(m) ==
  IF m = INIT_CLIMB THEN 9997533
  ELSE ClimbTable[((CLIMB_DURATION - m + (DT \div 2)) \div DT) + 1]

NewBird == [x |-> BIRD_X, y |-> INIT_Y * U, msec_to_climb |-> INIT_CLIMB]

BirdUpdateAlwaysDecrement(b) ==
  IF b.msec_to_climb > 0
  THEN [b EXCEPT !.y = b.y - ClimbStep(b.msec_to_climb),
                 !.msec_to_climb = b.msec_to_climb - frames_to_msec]
  ELSE [b EXCEPT !.y = b.y + SINK_STEP,
                 !.msec_to_climb = b.msec_to_climb - frames_to_msec]

BirdUpdate(b) ==
  IF b.msec_to_climb > 0
  THEN [b EXCEPT !.y = b.y - ClimbStep(b.msec_to_climb),
                 !.msec_to_climb = b.msec_to_climb - frames_to_msec]
  ELSE [b EXCEPT !.y = b.y + SINK_STEP]

\* Rect(x, y, w, h) truncates the float y toward zero.
RectY(b) == IF b.y >= 0 THEN b.y \div U ELSE 0 - ((0 - b.y) \div U)

\* --------------------------------------------------------------- PipePair
TotalPipeBodyPieces ==
  (WIN_HEIGHT - 3 * BIRD_HEIGHT - 3 * PIECE_HEIGHT) \div PIECE_HEIGHT

NewPipePair(pipenum) ==
  [x |-> WIN_WIDTH - 1,
   score_counted |-> FALSE,
   bottom_pieces |-> pipenum + 1,
   top_pieces |-> (TotalPipeBodyPieces - pipenum) + 1]

top_height_px(p) == p.top_pieces * PIECE_HEIGHT

bottom_height_px(p) == p.bottom_pieces * PIECE_HEIGHT

visible(p) == (0 - PIPE_WIDTH) < p.x /\ p.x < WIN_WIDTH

PipeUpdate(p) == [p EXCEPT !.x = p.x - PIPE_STEP]

collides_with(p, b) ==
  LET y == RectY(b)
  IN /\ b.x < p.x + PIPE_WIDTH
     /\ p.x < b.x + BIRD_WIDTH
     /\ y < WIN_HEIGHT
     /\ y + BIRD_HEIGHT > 0
     /\ \/ y < top_height_px(p)
        \/ y + BIRD_HEIGHT > WIN_HEIGHT - bottom_height_px(p)

\* --------------------------------------------------------------------- ai
Sentinel == <<0, 2, 0>>

NewAi == [curr |-> Sentinel, best |-> Sentinel, count |-> 2, compframe |-> 0,
          deathtype |-> 2, deathprocessed |-> 0, done |-> 1, score |-> 0]

Better(c, b) == c[1] > b[1] \/ (c[1] = b[1] /\ c[2] < b[2])

\* resetvar leaving the cursor at the start of the list.
ResetVarCursorZero(a, score) ==
  LET c == [a.curr EXCEPT ![1] = score, ![2] = a.deathtype]
      b == IF Better(c, a.best) THEN c ELSE a.best
  IN [a EXCEPT !.curr = b, !.best = b, !.count = 0,
               !.compframe = IF Better(c, a.best) THEN a.count ELSE a.compframe]

ResetVarAccumulate(a, score) ==
  LET c == [a.curr EXCEPT ![1] = a.curr[1] + score, ![2] = a.deathtype]
      b == IF Better(c, a.best) THEN c ELSE a.best
  IN [a EXCEPT !.curr = b, !.best = b, !.count = 2,
               !.compframe = IF Better(c, a.best) THEN a.count ELSE a.compframe]

ResetVarNoCompframe(a, score) ==
  LET c == [a.curr EXCEPT ![1] = score, ![2] = a.deathtype]
      b == IF Better(c, a.best) THEN c ELSE a.best
  IN [a EXCEPT !.curr = b, !.best = b, !.count = 2]

ResetVarAlways(a, score) ==
  LET c == [a.curr EXCEPT ![1] = score, ![2] = a.deathtype]
  IN [a EXCEPT !.curr = c, !.best = c, !.count = 2, !.compframe = a.count]

resetvar(a, score) ==
  LET c == [a.curr EXCEPT ![1] = score, ![2] = a.deathtype]
      b == IF Better(c, a.best) THEN c ELSE a.best
  IN [a EXCEPT !.curr = b, !.best = b, !.count = 2,
               !.compframe = IF Better(c, a.best) THEN a.count ELSE a.compframe]

\* play() drawing from 0..25 in its last branch too.
PlayNarrowLastRange(a, seed, n) ==
  LET k == a.count + 1
      r25 == Randint(0, 25, seed, n)
      n1 == NextRng(seed, n)
      step1 ==
        IF a.best = Sentinel \/ a.count > Len(a.curr) - 1
        THEN [curr |-> Append(a.curr, r25), rng |-> n1]
        ELSE IF a.count > a.best[3]
        THEN LET s2 == IF a.best[2] = 2
                       THEN [curr |-> [a.curr EXCEPT ![k] = r25], rng |-> n1]
                       ELSE [curr |-> a.curr, rng |-> n]
             IN IF a.best[2] = 1
                THEN IF 2 * a.count > a.compframe - a.best[3]
                     THEN [curr |-> [s2.curr EXCEPT ![k] =
                                       Randint(0, 25, seed, s2.rng)],
                           rng |-> NextRng(seed, s2.rng)]
                     ELSE s2
                ELSE IF a.count > a.compframe - 20
                     THEN [curr |-> [s2.curr EXCEPT ![k] =
                                       Randint(0, 25, seed, s2.rng)],
                           rng |-> NextRng(seed, s2.rng)]
                     ELSE s2
        ELSE [curr |-> a.curr, rng |-> n]
  IN [ai |-> [a EXCEPT !.curr = step1.curr, !.count = a.count + 1],
      fly |-> step1.curr[a.count + 1],
      rng |-> step1.rng]

\* play() re-rolling without the test of the cursor against best[2].
PlayNoReplayGuard(a, seed, n) ==
  LET k == a.count + 1
      r25 == Randint(0, 25, seed, n)
      n1 == NextRng(seed, n)
      step1 ==
        IF a.best = Sentinel \/ a.count > Len(a.curr) - 1
        THEN [curr |-> Append(a.curr, r25), rng |-> n1]
        ELSE IF TRUE
        THEN LET s2 == IF a.best[2] = 2
                       THEN [curr |-> [a.curr EXCEPT ![k] = r25], rng |-> n1]
                       ELSE [curr |-> a.curr, rng |-> n]
             IN IF a.best[2] = 1
                THEN IF 2 * a.count > a.compframe - a.best[3]
                     THEN [curr |-> [s2.curr EXCEPT ![k] =
                                       Randint(0, 25, seed, s2.rng)],
                           rng |-> NextRng(seed, s2.rng)]
                     ELSE s2
                ELSE IF a.count > a.compframe - 20
                     THEN [curr |-> [s2.curr EXCEPT ![k] =
                                       Randint(0, 30, seed, s2.rng)],
                           rng |-> NextRng(seed, s2.rng)]
                     ELSE s2
        ELSE [curr |-> a.curr, rng |-> n]
  IN [ai |-> [a EXCEPT !.curr = step1.curr, !.count = a.count + 1],
      fly |-> step1.curr[a.count + 1],
      rng |-> step1.rng]

\* play(): the result carries the lineage, the value returned and the
\* generator position after the draws made.
play(a, seed, n) ==
  LET k == a.count + 1
      r25 == Randint(0, 25, seed, n)
      n1 == NextRng(seed, n)
      step1 ==
        IF a.best = Sentinel \/ a.count > Len(a.curr) - 1
        THEN [curr |-> Append(a.curr, r25), rng |-> n1]
        ELSE IF a.count > a.best[3]
        THEN LET s2 == IF a.best[2] = 2
                       THEN [curr |-> [a.curr EXCEPT ![k] = r25], rng |-> n1]
                       ELSE [curr |-> a.curr, rng |-> n]
             IN IF a.best[2] = 1
                THEN IF 2 * a.count > a.compframe - a.best[3]
                     THEN [curr |-> [s2.curr EXCEPT ![k] =
                                       Randint(0, 25, seed, s2.rng)],
                           rng |-> NextRng(seed, s2.rng)]
                     ELSE s2
                ELSE IF a.count > a.compframe - 20
                     THEN [curr |-> [s2.curr EXCEPT ![k] =
                                       Randint(0, 30, seed, s2.rng)],
                           rng |-> NextRng(seed, s2.rng)]
                     ELSE s2
        ELSE [curr |-> a.curr, rng |-> n]
  IN [ai |-> [a EXCEPT !.curr = step1.curr, !.count = a.count + 1],
      fly |-> step1.curr[a.count + 1],
      rng |-> step1.rng]

scorecount(a) == [a EXCEPT !.curr[3] = a.count]


\* ------------------------------------------------------------------- main
VARIABLES birdnum, seed, player, ai, birds, bird, pipes, pscount,
          frame_clock, paused, end, done, firstcheck, score, pc, rng,
          runs, clicks, reported

vars == <<birdnum, seed, player, ai, birds, bird, pipes, pscount,
          frame_clock, paused, end, done, firstcheck, score, pc, rng,
          runs, clicks, reported>>

Lineages == 1..birdnum

\* paused, pscount and frame_clock are unbound until the first reset block,
\* which the first iteration always executes (firstcheck, every done = 1).
Init ==
  /\ \E c \in Configs : birdnum = c[1] /\ player = c[2] /\ seed = c[3]
  /\ ai = [i \in Lineages |-> NewAi]
  /\ birds = [i \in Lineages |-> NewBird]
  /\ bird = NewBird
  /\ pipes = <<>>
  /\ pscount = 0
  /\ frame_clock = 0
  /\ paused = 0
  /\ end = 0
  /\ done = 0
  /\ firstcheck = 1
  /\ score = 0
  /\ pc = "top"
  /\ rng = 0
  /\ runs = 0
  /\ clicks = 0
  /\ reported = 0 - 1

RestartAny == IF \E i \in Lineages : ai[i].done = 1 THEN 1 ELSE 0

\* restart=1; for i in autoinput: if i.done<restart: restart=i.done
Restart == IF \E i \in Lineages : ai[i].done < 1 THEN 0 ELSE 1

ResetCond == Restart = 1 /\ (player = 0 \/ player = 0 - 1 \/ firstcheck = 1)

ResetFirst ==
  /\ pc = "top"
  /\ end = 0
  /\ ResetCond
  /\ runs < MaxRuns
  /\ IF player # 0
     THEN bird' = NewBird /\ player' = 1
     ELSE UNCHANGED <<bird, player>>
  /\ score' = 0
  /\ paused' = 0
  /\ ai' = [i \in Lineages |->
              LET a == [ai[i] EXCEPT !.done = 0, !.deathprocessed = 0]
              IN IF firstcheck = 0
                 THEN [resetvar(a, a.score) EXCEPT !.score = 0]
                 ELSE a]
  /\ birds' = [i \in Lineages |-> NewBird]
  /\ firstcheck' = 0
  /\ pipes' = <<>>
  /\ pscount' = 0
  /\ frame_clock' = 0
  /\ runs' = runs + 1
  /\ clicks' = 0
  /\ pc' = "sync"
  /\ UNCHANGED <<birdnum, seed, end, done, rng, reported>>

MaxOf(S) == CHOOSE m \in S : \A x \in S : x <= m

MinOf(S) == CHOOSE m \in S : \A x \in S : m <= x

\* First pass of the synchronisation: the first lineage holding the highest
\* best score hands its best to every lineage with a lower one.
SyncScore(A) ==
  LET best == MaxOf({0} \cup {A[i].best[1] : i \in DOMAIN A})
  IN IF best > 0
     THEN LET bestindex == MinOf({i \in DOMAIN A : A[i].best[1] = best})
          IN [i \in DOMAIN A |->
                IF A[i].best[1] < best
                THEN [A[i] EXCEPT !.best = A[bestindex].best]
                ELSE A[i]]
     ELSE A

\* Second pass: the first lineage holding the lowest death type below 2
\* hands its best to every lineage with a higher one.
SyncDeath(A) ==
  LET best == MinOf({2} \cup {A[i].best[2] : i \in DOMAIN A})
  IN IF best < 2
     THEN LET bestindex == MinOf({i \in DOMAIN A : A[i].best[2] = best})
          IN [i \in DOMAIN A |->
                IF A[i].best[2] > best
                THEN [A[i] EXCEPT !.best = A[bestindex].best]
                ELSE A[i]]
     ELSE A

SyncBestDeathOnly(A) == SyncDeath(A)

SyncBest(A) == SyncDeath(SyncScore(A))

Sync ==
  /\ pc = "sync"
  /\ ai' = SyncBest(ai)
  /\ pc' = "reset2"
  /\ UNCHANGED <<birdnum, seed, player, birds, bird, pipes, pscount,
                 frame_clock, paused, end, done, firstcheck, score, rng,
                 runs, clicks, reported>>

ResetSecond ==
  /\ pc = "reset2"
  /\ ai' = [i \in Lineages |-> resetvar(ai[i], ai[i].score)]
  /\ pc' = "spawn"
  /\ UNCHANGED <<birdnum, seed, player, birds, bird, pipes, pscount,
                 frame_clock, paused, end, done, firstcheck, score, rng,
                 runs, clicks, reported>>

SpawnDueIgnoringPause == frame_clock % msec_to_frames(ADD_INTERVAL) = 0

\* not (paused or frame_clock % msec_to_frames(PipePair.ADD_INTERVAL))
SpawnDue == paused = 0 /\ frame_clock % msec_to_frames(ADD_INTERVAL) = 0

NextPscountNoWrap(n) == n + 1

NextPscount(n) == IF n + 1 = 10 THEN 0 ELSE n + 1

Spawn ==
  /\ \/ pc = "spawn"
     \/ pc = "top" /\ end = 0 /\ ~ResetCond
  /\ IF SpawnDue
     THEN /\ pipes' = Append(pipes, NewPipePair(PS[pscount + 1]))
          /\ pscount' = NextPscount(pscount)
     ELSE UNCHANGED <<pipes, pscount>>
  /\ pc' = "events"
  /\ UNCHANGED <<birdnum, seed, player, ai, birds, bird, frame_clock, paused,
                 end, done, firstcheck, score, rng, runs, clicks, reported>>

\* The for loop over pygame.event.get(): st carries end, done, paused and
\* the human bird's msec_to_climb; QUIT and ESCAPE break out of the loop.
RECURSIVE EventLoop(_, _, _)
EventLoop(evs, st, human) ==
  IF evs = <<>> THEN st
  ELSE LET e == Head(evs)
           st1 == IF e = "ESCAPE" THEN [st EXCEPT !.end = 1] ELSE st
       IN IF e = "QUIT" \/ e = "ESCAPE"
          THEN [st1 EXCEPT !.done = 1]
          ELSE IF e = "PAUSE"
          THEN EventLoop(Tail(evs), [st1 EXCEPT !.paused = 1 - st1.paused], human)
          ELSE IF human # 0
          THEN EventLoop(Tail(evs), [st1 EXCEPT !.msec_to_climb = CLIMB_DURATION],
                         human)
          ELSE EventLoop(Tail(evs), st1, human)

NumClicks(evs) == Cardinality({k \in DOMAIN evs : evs[k] = "CLICK"})

HandleEvents(evs) ==
  /\ pc = "events"
  /\ player # 0 => clicks + NumClicks(evs) <= MaxClicks
  /\ LET st == EventLoop(evs, [end |-> end, done |-> done, paused |-> paused,
                               msec_to_climb |-> bird.msec_to_climb], player)
     IN /\ end' = st.end
        /\ done' = st.done
        /\ paused' = st.paused
        /\ bird' = [bird EXCEPT !.msec_to_climb = st.msec_to_climb]
        /\ pc' = IF st.paused # 0 THEN "top" ELSE "collide"
  /\ clicks' = IF player # 0 THEN clicks + NumClicks(evs) ELSE clicks
  /\ UNCHANGED <<birdnum, seed, player, ai, birds, pipes, pscount,
                 frame_clock, firstcheck, score, rng, runs, reported>>

OutOfBounds(b) == 0 >= b.y \/ b.y >= (WIN_HEIGHT - BIRD_HEIGHT) * U

PipeCollision(b) == \E k \in DOMAIN pipes : collides_with(pipes[k], b)

HeadBandStrict(p, b) ==
  /\ RectY(b) > top_height_px(p)
  /\ RectY(b) < WIN_HEIGHT - bottom_height_px(p)

\* The test "collision is with pipe head", made against pipes[0].
HeadBand(p, b) ==
  /\ RectY(b) > (p.top_pieces - 1) * PIECE_HEIGHT
  /\ RectY(b) < WIN_HEIGHT - p.bottom_pieces * PIECE_HEIGHT

DeathType(b) ==
  IF PipeCollision(b)
  THEN IF HeadBand(pipes[1], b) THEN 0 ELSE 1
  ELSE 2

DiesUnguarded(i) == PipeCollision(birds[i]) \/ OutOfBounds(birds[i])

Dies(i) ==
  ai[i].deathprocessed = 0 /\ (PipeCollision(birds[i]) \/ OutOfBounds(birds[i]))

Collide ==
  /\ pc = "collide"
  /\ ai' = [i \in Lineages |->
              IF Dies(i)
              THEN [ai[i] EXCEPT !.deathprocessed = 1, !.done = 1,
                                 !.deathtype = DeathType(birds[i])]
              ELSE ai[i]]
  /\ birds' = [i \in Lineages |->
                 IF Dies(i) THEN [birds[i] EXCEPT !.x = DEAD_X] ELSE birds[i]]
  /\ IF player # 0 /\ (PipeCollision(bird) \/ OutOfBounds(bird))
     THEN bird' = [bird EXCEPT !.x = DEAD_X] /\ player' = 0 - 1
     ELSE UNCHANGED <<bird, player>>
  /\ pc' = "move"
  /\ UNCHANGED <<birdnum, seed, pipes, pscount, frame_clock, paused, end,
                 done, firstcheck, score, rng, runs, clicks, reported>>

\* No obstacle leaves the deque.
RetireNever(ps) == ps

\* while pipes and not pipes[0].visible: pipes.popleft()
RECURSIVE Retire(_)
Retire(ps) ==
  IF ps # <<>> /\ ~visible(Head(ps)) THEN Retire(Tail(ps)) ELSE ps

Move ==
  /\ pc = "move"
  /\ pipes' = [k \in DOMAIN Retire(pipes) |-> PipeUpdate(Retire(pipes)[k])]
  /\ birds' = [i \in Lineages |-> BirdUpdate(birds[i])]
  /\ bird' = IF player # 0 THEN BirdUpdate(bird) ELSE bird
  /\ pc' = "score"
  /\ UNCHANGED <<birdnum, seed, player, ai, pscount, frame_clock, paused,
                 end, done, firstcheck, score, rng, runs, clicks, reported>>

PassedIgnoringCounted(p) == p.x + PIPE_WIDTH < BIRD_X

Passed(p) == p.x + PIPE_WIDTH < BIRD_X /\ ~p.score_counted

Score ==
  /\ pc = "score"
  /\ LET n == Cardinality({k \in DOMAIN pipes : Passed(pipes[k])})
     IN /\ ai' = [i \in Lineages |->
                    IF ai[i].done = 0 /\ n > 0
                    THEN scorecount([ai[i] EXCEPT !.score = ai[i].score + n])
                    ELSE ai[i]]
        /\ score' = score + n
  /\ pipes' = [k \in DOMAIN pipes |->
                 IF Passed(pipes[k])
                 THEN [pipes[k] EXCEPT !.score_counted = TRUE]
                 ELSE pipes[k]]
  /\ frame_clock' = frame_clock + 1
  /\ pc' = "play"
  /\ UNCHANGED <<birdnum, seed, player, birds, bird, pscount, paused, end,
                 done, firstcheck, rng, runs, clicks, reported>>

\* The "machine learning call" loop, lineage by lineage on the shared
\* generator: st carries ai, birds and rng.
RECURSIVE PlayFrom(_, _)
PlayFrom(i, st) ==
  IF i > birdnum THEN st
  ELSE IF st.ai[i].done = 0
  THEN LET r == play(st.ai[i], seed, st.rng)
       IN PlayFrom(i + 1,
            [ai |-> [st.ai EXCEPT ![i] = r.ai],
             birds |-> IF r.fly = 1
                       THEN [st.birds EXCEPT ![i].msec_to_climb = CLIMB_DURATION]
                       ELSE st.birds,
             rng |-> r.rng])
  ELSE PlayFrom(i + 1, st)

MachineLearningCall ==
  /\ pc = "play"
  /\ LET st == PlayFrom(1, [ai |-> ai, birds |-> birds, rng |-> rng])
     IN ai' = st.ai /\ birds' = st.birds /\ rng' = st.rng
  /\ pc' = "top"
  /\ UNCHANGED <<birdnum, seed, player, bird, pipes, pscount, frame_clock,
                 paused, end, done, firstcheck, score, runs, clicks, reported>>

\* max(finalscore) raises ValueError on an empty population.
Exit ==
  /\ pc = "top"
  /\ end # 0
  /\ IF birdnum = 0
     THEN pc' = "ValueError" /\ UNCHANGED reported
     ELSE pc' = "exited" /\ reported' = MaxOf({ai[i].best[1] : i \in Lineages})
  /\ UNCHANGED <<birdnum, seed, player, ai, birds, bird, pipes, pscount,
                 frame_clock, paused, end, done, firstcheck, score, rng,
                 runs, clicks>>

Next ==
  \/ ResetFirst
  \/ Sync
  \/ ResetSecond
  \/ Spawn
  \/ \E evs \in SeqsUpTo(MaxEvents) : HandleEvents(evs)
  \/ Collide
  \/ Move
  \/ Score
  \/ MachineLearningCall
  \/ Exit

Spec == Init /\ [][Next]_vars

\* ================================================================ claims

\* C1: for every lineage, in every step, best[0] (the score) does not
\* decrease, and when best changes with best[0] equal, best[1] (the death
\* classification) does not increase.
C1_BestMonotone ==
  [][\A i \in Lineages :
       /\ ai'[i].best[1] >= ai[i].best[1]
       /\ (ai'[i].best # ai[i].best /\ ai'[i].best[1] = ai[i].best[1])
            => ai'[i].best[2] <= ai[i].best[2]]_vars

\* A lineage whose best went from the sentinel to score 2 with death type 1
\* and then, at the same score, to death type 0.
C1_Witness ==
  /\ pc = "spawn"
  /\ runs >= 3
  /\ \E i \in Lineages : ai[i].best[1] = 2 /\ ai[i].best[2] = 0

\* What the claim says one resetvar(score) call does to best and compframe.
ResetVarContract(a, a2, s) ==
  LET c == [a.curr EXCEPT ![1] = s, ![2] = a.deathtype]
  IN IF s > a.best[1] \/ (s = a.best[1] /\ a.deathtype < a.best[2])
     THEN a2.best = c /\ a2.compframe = a.count
     ELSE a2.best = a.best /\ a2.compframe = a.compframe

\* C2: each resetvar(score) call of the reset block replaces best by the
\* full copy of curr (with curr[0] = score, curr[1] = deathtype) and sets
\* compframe to the cursor exactly when score > best[0], or score = best[0]
\* and deathtype < best[1]; otherwise best and compframe are unchanged.
C2_ResetVarContract ==
  [][(\/ pc = "top" /\ pc' = "sync" /\ firstcheck = 0
      \/ pc = "reset2" /\ pc' = "spawn")
       => \A i \in Lineages : ResetVarContract(ai[i], ai'[i], ai[i].score)]_vars

\* Just after the first resetvar call of a reset block promoted a run of
\* score 2 that ended at cursor 524.
C2_Witness ==
  /\ pc = "sync"
  /\ \E i \in Lineages :
       /\ ai[i].best[1] = 2
       /\ ai[i].compframe = 524
       /\ Len(ai[i].best) = 525
       /\ ai[i].curr = ai[i].best

\* C3: from every reachable lineage state and for every score argument, a
\* second resetvar call with the same score right after the first leaves
\* best as the first call left it.
C3_ResetVarIdempotent ==
  \A i \in Lineages : \A s \in 0..MaxScoreArg :
    resetvar(resetvar(ai[i], s), s).best = resetvar(ai[i], s).best

\* The end of a run whose score beats best: the first call changes best,
\* the second call with the same score does not.
C3_Witness ==
  /\ pc = "top"
  /\ Restart = 1
  /\ firstcheck = 0
  /\ \E i \in Lineages :
       /\ ai[i].score > 0
       /\ ai[i].score <= MaxScoreArg
       /\ resetvar(ai[i], ai[i].score).best # ai[i].best
       /\ resetvar(resetvar(ai[i], ai[i].score), ai[i].score).best
            = resetvar(ai[i], ai[i].score).best

\* Every value the generator can produce is read as "ascend" (1).
AscendsEveryTick ==
  \A n \in 0..(Len(Streams[seed]) - 1) :
    Randint(0, 25, seed, n) = 1 /\ Randint(0, 30, seed, n) = 1

\* C4 as stated: a lineage whose policy triggers an ascend on every tick
\* dies with death classification 2, never 0 or 1.
C4_AsStated ==
  \A i \in Lineages :
    (AscendsEveryTick /\ ai[i].deathprocessed = 1) => ai[i].deathtype = 2

\* C4 amended: an update made with msec_to_climb = CLIMB_DURATION does not
\* move the bird, so a lineage whose policy triggers an ascend on every tick
\* stays inside the vertical bounds while alive and dies by hitting an
\* obstacle, with death classification 1 and never 2.
C4_HoversAndHitsPipe ==
  /\ [](\A i \in Lineages :
          AscendsEveryTick =>
            /\ ai[i].deathprocessed = 1 => ai[i].deathtype = 1
            /\ ai[i].deathprocessed = 0 => ~OutOfBounds(birds[i]))
  /\ [][pc = "move" =>
          \A i \in Lineages :
            birds[i].msec_to_climb = CLIMB_DURATION => birds'[i].y = birds[i].y]_vars

\* The always-ascending lineage has just been marked dead by a collision
\* with the third obstacle of the run, after scoring the first two.
C4_Witness ==
  /\ AscendsEveryTick
  /\ pc = "move"
  /\ \E i \in Lineages :
       /\ ai[i].deathprocessed = 1
       /\ ai[i].score = 2
       /\ PipeCollision([birds[i] EXCEPT !.x = BIRD_X])
       /\ ~OutOfBounds(birds[i])

\* The pipes a bird overlaps.
Hit(b) == {k \in DOMAIN pipes : collides_with(pipes[k], b)}

\* C5 as stated: the death classification recorded is 0 exactly when the
\* bird hit an obstacle with y strictly between top_height_px and
\* WIN_HEIGHT - bottom_height_px of that obstacle, 1 for any other obstacle
\* collision, 2 when it left the bounds without a collision.
C5_AsStated ==
  [][pc = "collide" =>
       \A i \in Lineages :
         Dies(i) =>
           ai'[i].deathtype =
             IF Hit(birds[i]) # {}
             THEN IF \E k \in Hit(birds[i]) :
                       /\ birds[i].y > top_height_px(pipes[k]) * U
                       /\ birds[i].y < (WIN_HEIGHT - bottom_height_px(pipes[k])) * U
                  THEN 0 ELSE 1
             ELSE 2]_vars

\* C5 amended: the band of classification 0 starts one piece higher, at
\* top_height_px - PIECE_HEIGHT (the top segment's end piece), and y is the
\* integer pixel row of the bird's rect.
C5_DeathClassification ==
  [][pc = "collide" =>
       \A i \in Lineages :
         Dies(i) =>
           ai'[i].deathtype =
             IF Hit(birds[i]) # {}
             THEN IF \E k \in Hit(birds[i]) :
                       /\ RectY(birds[i]) > top_height_px(pipes[k]) - PIECE_HEIGHT
                       /\ RectY(birds[i]) < WIN_HEIGHT - bottom_height_px(pipes[k])
                  THEN 0 ELSE 1
             ELSE 2]_vars

\* A lineage has just been classified 0 for hitting the end piece of the
\* top segment: its rect starts above top_height_px.
C5_Witness ==
  /\ pc = "move"
  /\ pipes # <<>>
  /\ \E i \in Lineages :
       /\ ai[i].deathprocessed = 1
       /\ ai[i].deathtype = 0
       /\ Hit([birds[i] EXCEPT !.x = BIRD_X]) = {1}
       /\ RectY(birds[i]) < top_height_px(pipes[1])
       /\ RectY(birds[i]) > top_height_px(pipes[1]) - PIECE_HEIGHT

SpawnInterval == msec_to_frames(ADD_INTERVAL)

\* The number of obstacles one spawn per multiple of the spawn interval
\* gives the run so far: the spawn of the current frame_clock value is made
\* once the loop is past its spawn step, and stays made while paused.
SpawnsExpected ==
  IF pc \in {"sync", "reset2", "spawn"} \/ runs = 0 THEN 0
  ELSE IF pc \in {"events", "collide", "move", "score"} \/ paused = 1
  THEN (frame_clock \div SpawnInterval) + 1
  ELSE (frame_clock + SpawnInterval - 1) \div SpawnInterval

\* C6: in every run exactly one obstacle is spawned for each frame_clock
\* value that is a multiple of the spawn interval (180 ticks), none at any
\* other tick and none while paused, whatever the pause toggles; the k-th
\* obstacle of a run has size PS[k mod 10].  Each obstacle in the deque sits
\* where a spawn at tick 180 * k and one move per tick since put it.
C6_SpawnSchedule ==
  /\ SpawnInterval = 180
  /\ pscount = SpawnsExpected % 10
  /\ Len(pipes) <= SpawnsExpected
  /\ \A j \in DOMAIN pipes :
       LET k == SpawnsExpected - Len(pipes) + j - 1
           moves == frame_clock + (IF pc = "score" THEN 1 ELSE 0)
                      - SpawnInterval * k
       IN /\ pipes[j].bottom_pieces = PS[(k % 10) + 1] + 1
          /\ pipes[j].top_pieces = TotalPipeBodyPieces - PS[(k % 10) + 1] + 1
          /\ pipes[j].x = (WIN_WIDTH - 1) - PIPE_STEP * moves

\* Paused on the tick of the eleventh spawn: the obstacle of size PS[0] is
\* in the deque once, and the paused iterations add none.
C6_Witness ==
  /\ pc = "events"
  /\ paused = 1
  /\ frame_clock = 10 * SpawnInterval
  /\ pscount = 1
  /\ pipes[Len(pipes)].bottom_pieces = PS[1] + 1
  /\ pipes[Len(pipes)].x = WIN_WIDTH - 1

\* C7 as stated: with a population of 0 the main loop ends at once, without
\* a quit event: its body never runs (firstcheck is never cleared) and end
\* is never set.
C7_AsStated == birdnum = 0 => (firstcheck = 1 /\ end = 0)

\* C8: the reset block starts only when every lineage is dead, and no
\* lineage that is alive has its cursor or score taken back.
C8_ResetOnlyWhenAllDead ==
  [][/\ (pc = "top" /\ pc' = "sync") => \A i \in Lineages : ai[i].done = 1
     /\ \A i \in Lineages :
          ai[i].done = 0 =>
            /\ ai'[i].count >= ai[i].count
            /\ ai'[i].score >= ai[i].score
            /\ ai'[i].done = 0 => birds'[i].x = BIRD_X]_vars

\* A reset block has just started after a run in which one lineage died at
\* cursor 78 and waited, dead, for the other, which died at cursor 344.
C8_Witness ==
  /\ pc = "sync"
  /\ runs = 2
  /\ birdnum = 2
  /\ ai[1].compframe = 344
  /\ ai[2].compframe = 0
  /\ \A i \in Lineages : ai[i].count = 2 /\ ai[i].done = 0

\* C9: a step taken with paused set that leaves it set spawns nothing, moves
\* no bird or pipe, changes no score or death bookkeeping, makes no play()
\* call and does not advance frame_clock.
C9_PausedFreezes ==
  [][(paused = 1 /\ paused' = 1) =>
       /\ UNCHANGED <<pipes, pscount, birds, ai, score, frame_clock, rng, player>>
       /\ bird'.x = bird.x
       /\ bird'.y = bird.y]_vars

\* An iteration has passed its spawn step while paused on a spawn tick: the
\* deque still holds the two obstacles spawned before the pause.
C9_Witness ==
  /\ pc = "events"
  /\ paused = 1
  /\ frame_clock = SpawnInterval
  /\ Len(pipes) = 2
  /\ \E i \in Lineages : ai[i].done = 0

\* C10 as stated: once a quit event (QUIT or ESCAPE) has been handled the
\* loop stops iterating, and the program reports the maximum best[0].
C10_AsStated ==
  /\ (done = 1 /\ pc \in {"collide", "top"}) => end = 1
  /\ (end = 1 /\ pc \notin {"events", "collide", "move", "score", "play", "top"})
       => (pc = "exited" /\ reported = MaxOf({ai[i].best[1] : i \in Lineages}))

\* C11 as stated: after every Bird.update the remaining ascend time
\* msec_to_climb is >= 0, whatever its value before the call (the value 2
\* given at the start of a run included).
C11_AsStated ==
  [][pc = "move" => \A i \in Lineages : birds'[i].msec_to_climb >= 0]_vars

\* C11: Bird.update subtracts one frame time from msec_to_climb exactly
\* when it is > 0 and leaves it alone otherwise, so after every update it is
\* above minus one frame time, and it may be negative.
C11_ClimbTimeAboveMinusOneFrame ==
  [][pc = "move" =>
       \A i \in Lineages :
         /\ birds'[i].msec_to_climb > 0 - frames_to_msec
         /\ birds'[i].msec_to_climb =
              IF birds[i].msec_to_climb > 0
              THEN birds[i].msec_to_climb - frames_to_msec
              ELSE birds[i].msec_to_climb]_vars

\* The first update of a run has just taken the initial ascend time below
\* zero.
C11_Witness ==
  /\ pc = "score"
  /\ frame_clock = 0
  /\ \E i \in Lineages : birds[i].msec_to_climb = INIT_CLIMB - frames_to_msec
  /\ INIT_CLIMB - frames_to_msec < 0

\* The generator position at which lineage i's play() call of the current
\* "machine learning call" starts: the lineages before it have drawn first.
RECURSIVE RngBefore(_)
RngBefore(i) ==
  IF i = 1 THEN rng
  ELSE IF ai[i - 1].done = 0
       THEN play(ai[i - 1], seed, RngBefore(i - 1)).rng
       ELSE RngBefore(i - 1)

\* The play() call the loop makes for lineage i in the current state.
PlayCall(i) == play(ai[i], seed, RngBefore(i))

\* The cursor is inside the recorded sequence and best is not the sentinel.
InsideRecorded(a) == a.best # Sentinel /\ a.count <= Len(a.curr) - 1

\* C12: while best is not the sentinel, a play() call made with the cursor
\* <= best[2] and inside the recorded sequence leaves curr unchanged and
\* returns best's entry at the cursor; and between the end of one reset block
\* and the start of the next, curr[i] = best[i] for every action position
\* 3 <= i <= best[2].
C12_ReplayPrefix ==
  /\ [][pc = "play" =>
          \A i \in Lineages :
            (ai[i].done = 0 /\ InsideRecorded(ai[i])
               /\ ai[i].count <= ai[i].best[3])
            => /\ ai'[i].curr = ai[i].curr
               /\ PlayCall(i).fly = ai[i].best[ai[i].count + 1]
               /\ (birds'[i].msec_to_climb = CLIMB_DURATION)
                    <=> (ai[i].best[ai[i].count + 1] = 1)]_vars
  /\ [](pc # "reset2" =>
          \A i \in Lineages :
            ai[i].best # Sentinel =>
              \A j \in 3 .. ai[i].best[3] :
                ai[i].curr[j + 1] = ai[i].best[j + 1])

\* A play() call has just replayed an action entry of best (an ascend) at a
\* cursor position <= best[2].
C12_Witness ==
  /\ pc = "top"
  /\ \E i \in Lineages :
       /\ ai[i].done = 0
       /\ ai[i].best # Sentinel
       /\ ai[i].count - 1 >= 3
       /\ ai[i].count - 1 <= ai[i].best[3]
       /\ ai[i].best[ai[i].count] = 1
       /\ ai[i].curr = ai[i].best
       /\ birds[i].msec_to_climb = CLIMB_DURATION

\* C13 as stated: when best is not the sentinel, best[1] = 2 and the cursor
\* is past best[2] and inside the recorded sequence, play() overwrites the
\* entry at the cursor with a value of 0..25, whatever compframe is.
C13_AsStated ==
  [][pc = "play" =>
       \A i \in Lineages :
         (ai[i].done = 0 /\ InsideRecorded(ai[i]) /\ ai[i].best[2] = 2
            /\ ai[i].count > ai[i].best[3])
         => \E v \in 0 .. 25 :
              ai'[i].curr = [ai[i].curr EXCEPT ![ai[i].count + 1] = v]]_vars

\* C14 as stated: when best is not the sentinel, best[1] = 1 and the cursor
\* is past best[2] and inside the recorded sequence, play() re-rolls the entry
\* at the cursor (from 0..25) exactly when the cursor is greater than the
\* midpoint (compframe + best[2]) / 2, and leaves curr unchanged otherwise.
C14_AsStated ==
  [][pc = "play" =>
       \A i \in Lineages :
         (ai[i].done = 0 /\ InsideRecorded(ai[i]) /\ ai[i].best[2] = 1
            /\ ai[i].count > ai[i].best[3])
         => ai'[i].curr =
              IF 2 * ai[i].count > ai[i].compframe + ai[i].best[3]
              THEN [ai[i].curr EXCEPT ![ai[i].count + 1] =
                      Randint(0, 25, seed, RngBefore(i))]
              ELSE ai[i].curr]_vars

\* C15: when best is not the sentinel, best[1] = 0 and the cursor is past
\* best[2] and inside the recorded sequence, play() re-rolls the entry at the
\* cursor exactly when the cursor is greater than compframe - 20, with a
\* value drawn from 0..30, and leaves curr unchanged otherwise.
C15_HeadCaseReroll ==
  [][pc = "play" =>
       \A i \in Lineages :
         (ai[i].done = 0 /\ InsideRecorded(ai[i]) /\ ai[i].best[2] = 0
            /\ ai[i].count > ai[i].best[3])
         => ai'[i].curr =
              IF ai[i].count > ai[i].compframe - 20
              THEN [ai[i].curr EXCEPT ![ai[i].count + 1] =
                      Randint(0, 30, seed, RngBefore(i))]
              ELSE ai[i].curr]_vars


\* A lineage whose best has death classification 0 has just had an entry
\* past compframe - 20 re-rolled to a value above 25.
C15_Witness ==
  /\ pc = "top"
  /\ \E i \in Lineages :
       /\ ai[i].done = 0
       /\ ai[i].best # Sentinel
       /\ ai[i].best[2] = 0
       /\ ai[i].count - 1 > ai[i].best[3]
       /\ ai[i].count - 1 > ai[i].compframe - 20
       /\ ai[i].count <= Len(ai[i].best)
       /\ ai[i].curr[ai[i].count] > 25
       /\ ai[i].curr[ai[i].count] # ai[i].best[ai[i].count]

\* The obstacles whose trailing edge is past the agent X and that are not
\* yet score-counted.
NewlyPassed ==
  {k \in DOMAIN pipes :
     pipes[k].x + PIPE_WIDTH < BIRD_X /\ ~pipes[k].score_counted}

\* C16: within a run each obstacle is score-counted at most once.  On the
\* tick its trailing edge first passes the agent X every alive lineage gains
\* exactly one point and has curr[2] set to its cursor, every dead lineage is
\* left unchanged, and the obstacle is marked; a lineage's score rises at no
\* other step; outside the score step an obstacle is marked exactly when its
\* trailing edge is past the agent X; and no lineage's score exceeds the
\* number of obstacles spawned in the run.
C16_ScoredOnce ==
  /\ [][pc = "score" =>
          /\ Cardinality(NewlyPassed) <= 1
          /\ \A i \in Lineages :
               IF ai[i].done = 0 /\ NewlyPassed # {}
               THEN ai'[i] = [ai[i] EXCEPT !.score = ai[i].score + 1,
                                           !.curr[3] = ai[i].count]
               ELSE ai'[i] = ai[i]
          /\ Len(pipes') = Len(pipes)
          /\ \A k \in DOMAIN pipes :
               pipes'[k].score_counted
                 = (pipes[k].score_counted \/ k \in NewlyPassed)]_vars
  /\ [][\A i \in Lineages :
          ai'[i].score > ai[i].score => pc = "score"]_vars
  /\ [](pc # "score" =>
          \A k \in DOMAIN pipes :
            pipes[k].score_counted <=> pipes[k].x + PIPE_WIDTH < BIRD_X)
  /\ [](\A i \in Lineages : ai[i].score <= SpawnsExpected)

\* The first obstacle has just been counted on the first tick its trailing
\* edge is past the agent X: the alive lineage has one point and its marker
\* at its cursor, the dead one has none.
C16_Witness ==
  /\ pc = "play"
  /\ Len(pipes) >= 1
  /\ pipes[1].score_counted
  /\ pipes[1].x + PIPE_WIDTH + PIPE_STEP >= BIRD_X
  /\ \E i, j \in Lineages :
       /\ ai[i].done = 0 /\ ai[i].score = 1 /\ ai[i].curr[3] = ai[i].count
       /\ ai[j].done = 1 /\ ai[j].score = 0 /\ ai[j].curr[3] # ai[j].count

\* C17: once a lineage is marked dead, no step before the next reset block
\* changes it: its death classification is not rewritten, play() is not
\* called for it (cursor and curr stay as they are) and its score does not
\* change.
C17_DeadLineageFrozen ==
  [][\A i \in Lineages :
       (ai[i].done = 1 /\ ~(pc = "top" /\ pc' = "sync"))
       => ai'[i] = ai[i]]_vars

\* A lineage that died on an obstacle head (classification 0) is now out of
\* the vertical bounds with no obstacle collision, at the collision check,
\* while another lineage is still alive and has scored since.
C17_Witness ==
  /\ pc = "collide"
  /\ \E i, j \in Lineages :
       /\ ai[i].deathprocessed = 1 /\ ai[i].done = 1
       /\ ai[i].deathtype = 0
       /\ OutOfBounds(birds[i]) /\ ~PipeCollision(birds[i])
       /\ ai[j].done = 0
       /\ ai[j].score > ai[i].score

\* C18 as stated: the value a play() call returns is the entry of curr at
\* the index the cursor had before the call, and that index is an action
\* position (>= 3), never one of the three header fields; the first call of
\* a run included.
C18_AsStated ==
  [][pc = "play" =>
       \A i \in Lineages :
         ai[i].done = 0 =>
           LET idx == ai'[i].count - 1
           IN /\ PlayCall(i).fly = ai'[i].curr[idx + 1]
              /\ idx >= 3]_vars

\* C19 as stated: in every state, for every lineage whose best is not the
\* sentinel, best[2] <= compframe (compframe being the cursor at the end of
\* the run that produced best).
C19_AsStated ==
  \A i \in Lineages :
    ai[i].best # Sentinel => ai[i].best[3] <= ai[i].compframe

\* C20: in every state 2 <= count <= len(curr) for every lineage; and every
\* play() call writes curr only at its cursor, with the cursor inside curr
\* when it overwrites, reads its return value inside the resulting curr, and
\* grows curr by at most one entry (an append at the end).
C20_CursorInBounds ==
  /\ [](\A i \in Lineages :
          2 <= ai[i].count /\ ai[i].count <= Len(ai[i].curr))
  /\ [][pc = "play" =>
          \A i \in Lineages :
            ai[i].done = 0 =>
              LET c == ai[i].count
                  old == ai[i].curr
                  new == ai'[i].curr
              IN /\ ai'[i].count = c + 1
                 /\ c + 1 \in DOMAIN new
                 /\ \/ new = old
                    \/ Len(new) = Len(old) /\ c + 1 \in DOMAIN old
                         /\ \A j \in DOMAIN old : j # c + 1 => new[j] = old[j]
                    \/ Len(new) = Len(old) + 1
                         /\ \A j \in DOMAIN old : new[j] = old[j]]_vars

\* A play() call of a run that started from a recorded best has just
\* appended past the end of the recorded sequence: the cursor equals
\* len(curr).
C20_Witness ==
  /\ pc = "top"
  /\ \E i \in Lineages :
       /\ ai[i].done = 0
       /\ ai[i].best # Sentinel
       /\ Len(ai[i].curr) = Len(ai[i].best) + 1
       /\ ai[i].count = Len(ai[i].curr)

\* The agents of the state: the population's birds and, in the human
\* overlay configuration, the human bird.
Agents == {birds[i] : i \in Lineages} \cup (IF player # 0 THEN {bird} ELSE {})

\* Obstacle p and agent b overlap horizontally.
OverlapsColumn(p, b) == b.x < p.x + PIPE_WIDTH /\ p.x < b.x + BIRD_WIDTH

\* C21: in every state, an obstacle that overlaps an agent's horizontal
\* extent is the head of the deque, pipes[0] (so the deque is not empty and
\* no other obstacle overlaps); and at the collision check a lineage that
\* dies on an obstacle hit pipes[0] and no other, the obstacle its death
\* classification is computed from.
C21_HeadIsObstacleHit ==
  /\ [](\A b \in Agents :
          \A k \in DOMAIN pipes : OverlapsColumn(pipes[k], b) => k = 1)
  /\ [][pc = "collide" =>
          \A i \in Lineages :
            (Dies(i) /\ PipeCollision(birds[i]))
            => /\ Hit(birds[i]) = {1}
               /\ ai'[i].deathtype
                    = IF HeadBand(pipes[1], birds[i]) THEN 0 ELSE 1]_vars

\* A lineage that has passed obstacles already retired from the deque dies
\* on the head obstacle while a later one is in the deque behind it.
C21_Witness ==
  /\ pc = "collide"
  /\ Len(pipes) = 2
  /\ \E i \in Lineages :
       /\ Dies(i)
       /\ ai[i].score >= 1
       /\ Hit(birds[i]) = {1}
       /\ OverlapsColumn(pipes[1], birds[i])
       /\ ~OverlapsColumn(pipes[2], birds[i])

====
